---- MODULE Spec2Model ----
(***************************************************************************)
(* State-machine model of the "Number of Cases" applet: the widgets of     *)
(* toolbox.py (ConditionSelect, VarWindow, SelectedWindow, Filter,         *)
(* DateEntry, VarSelector) and the NumOfCases panel of numcases.py.        *)
(*                                                                         *)
(* Strings that the code inspects character by character (item names and   *)
(* the filter text) are sequences of one-character strings; condition      *)
(* names, which the code only compares and uses as dictionary keys, are    *)
(* TLA+ strings.  Listbox indices are 0-based as in Tk; row i of a listbox *)
(* is rows[i + 1].                                                         *)
(***************************************************************************)
EXTENDS Integers, Sequences, FiniteSets, TLC

(***************************************************************************)
(* Bounds of the model.                                                    *)
(***************************************************************************)
\* largest number of rows the accumulated selection list is let to grow to
MaxSelected == 3
\* the same, for the specifications that add the picker's set(name) or
\* the NumOfCases panel to the selector
MaxEntries == 1

(***************************************************************************)
(* The condition catalog (module datatools: condition_list,                *)
(* condition_dict, defaultCondition).  "Symptom" repeats an item name,     *)
(* mixes case, and shares the item "flu" with "Diagnosis".                 *)
(***************************************************************************)
flu == <<"f", "l", "u">>
cold == <<"c", "o", "l", "d">>
covid == <<"c", "o", "v", "i", "d">>
Cold == <<"C", "o", "l", "d">>

condition_list == <<"Diagnosis", "Symptom">>

condition_dict ==
    [n \in {"Diagnosis", "Symptom"} |->
        IF n = "Diagnosis"
        THEN [name |-> "Diagnosis", array |-> <<flu, cold, covid>>]
        ELSE [name |-> "Symptom", array |-> <<Cold, flu, Cold>>]]

defaultCondition == condition_dict["Diagnosis"]

\* a menu that also offers a name the dictionary has no condition for
MenuNamesWithStranger ==
    {condition_list[i] : i \in 1..Len(condition_list)} \cup {"Outcome"}

\* the names the menu offers: one command per element of condition_list
MenuNames == {condition_list[i] : i \in 1..Len(condition_list)}

\* texts the user types into the filter entry
FilterTexts == {<<>>, <<"C", "O">>, <<"u">>, <<"x">>}

\* texts the user types into the two date entries
DateTexts == {"", "abc", "2021-01-01", "2021-12-31"}

\* the texts with which the whole applet is driven: a part of the above,
\* to keep its state space small
PanelFilterTexts == {<<>>, <<"C", "O">>}
PanelDateTexts == {"", "abc", "2021-01-01"}

\* row counts of the tables the query collaborator returns
RowCounts == {0, 2}

\* the file name NumOfCases._open writes and opens
CsvName == "compiled cases.csv"

(***************************************************************************)
(* str.lower() and the substring test "a in b" on character sequences.     *)
(***************************************************************************)
LowerChar(c) ==
    CASE c = "C" -> "c"
      [] c = "O" -> "o"
      [] OTHER -> c

lower(s) == [i \in 1..Len(s) |-> LowerChar(s[i])]

\* a substring test that finds the empty string nowhere
ContainsNonEmpty(sub, s) ==
    /\ sub # <<>>
    /\ \E i \in 0..(Len(s) - Len(sub)) : SubSeq(s, i + 1, i + Len(sub)) = sub

\* Python's  sub in s  for strings
Contains(sub, s) ==
    \E i \in 0..(Len(s) - Len(sub)) : SubSeq(s, i + 1, i + Len(sub)) = sub

(***************************************************************************)
(* A Tk Listbox: its rows and the set of highlighted (selected) indices.   *)
(***************************************************************************)
EmptyListbox == [rows |-> <<>>, sel |-> {}]

LbSize(lb) == Len(lb.rows)

\* listbox.get(i)
LbGet(lb, i) == lb.rows[i + 1]

\* listbox.get(0, "end"): the rows as a tuple
LbGetAll(lb) == lb.rows

\* listbox.insert(index, elem): elem goes before row index (at the end when
\* index >= size); highlighted rows at or after it move down by one
LbInsert(lb, index, elem) ==
    LET at == IF index > LbSize(lb) THEN LbSize(lb) ELSE index
    IN  [rows |-> SubSeq(lb.rows, 1, at) \o <<elem>>
                    \o SubSeq(lb.rows, at + 1, LbSize(lb)),
         sel  |-> {i \in lb.sel : i < at} \cup {i + 1 : i \in {j \in lb.sel : j >= at}}]

\* listbox.delete(i): row i goes, with its highlight; later rows move up
LbDelete(lb, i) ==
    IF i < 0 \/ i >= LbSize(lb)
    THEN lb
    ELSE [rows |-> SubSeq(lb.rows, 1, i) \o SubSeq(lb.rows, i + 2, LbSize(lb)),
          sel  |-> {j \in lb.sel : j < i} \cup {j - 1 : j \in {k \in lb.sel : k > i}}]

\* a delete of all rows that leaves the highlighted indices behind
LbDeleteAllKeepSel(lb) == [rows |-> <<>>, sel |-> lb.sel]

\* listbox.delete(0, "end")
LbDeleteAll(lb) == [rows |-> <<>>, sel |-> {}]

RECURSIVE Ascending(_)
\* listbox.curselection(): the highlighted indices in increasing order
Ascending(S) ==
    IF S = {} THEN <<>>
    ELSE LET m == CHOOSE x \in S : \A y \in S : x <= y
         IN  <<m>> \o Ascending(S \ {m})

LbCurselection(lb) == Ascending(lb.sel)

VARIABLES
    stringvar,      \* ConditionSelect._stringvar: the displayed condition name
    tracefunc,      \* ConditionSelect.tracefunc: "None" or the callback's name
    vwCondition,    \* VarWindow.condition (the condition's name)
    varBox,         \* VarWindow.listbox
    selBox,         \* SelectedWindow.listbox, rows are <<conditionName, item>>
    filterVar,      \* Filter._filter
    fromVar,        \* DateEntry._from_var
    toVar,          \* DateEntry._to_var
    compiledCases,  \* NumOfCases._compiled_cases
    numVariable,    \* NumOfCases._num_variable
    files,          \* the working directory: file name -> content
    lastEvent       \* what the event handled last did besides writing the
                    \* variables above: the NumOfCases button handler it ran
                    \* ("" when it was none of them), the indices of the rows
                    \* it deleted from the accumulated list and the external
                    \* calls it made, both in order

vars == <<stringvar, tracefunc, vwCondition, varBox, selBox, filterVar,
          fromVar, toVar, compiledCases, numVariable, files, lastEvent>>

selectorVars == <<stringvar, tracefunc, vwCondition, varBox, selBox, filterVar>>
dateVars == <<fromVar, toVar>>
panelVars == <<compiledCases, numVariable, files>>

Event(handler, index, calls) ==
    [handler |-> handler, index |-> index, calls |-> calls]

(***************************************************************************)
(* VarWindow                                                               *)
(***************************************************************************)
RECURSIVE BuildLoop(_, _, _)
\* for i in range(len(varlist)): self.listbox.insert(i, varlist[i])
BuildLoop(lb, varlist, i) ==
    IF i >= Len(varlist) THEN lb
    ELSE BuildLoop(LbInsert(lb, i, varlist[i + 1]), varlist, i + 1)

\* build_box without its  self.listbox.delete(0, "end")
build_box_no_delete(lb, condition) ==
    BuildLoop(lb, condition.array, 0)

\* VarWindow.build_box(condition): the listbox after the call
build_box(lb, condition) ==
    BuildLoop(LbDeleteAll(lb), condition.array, 0)

RECURSIVE FilterLoop(_, _, _, _)
\* for var in varlist: if string.lower() in var.lower(): insert(size, var)
FilterLoop(lb, varlist, k, string) ==
    IF k > Len(varlist) THEN lb
    ELSE IF Contains(lower(string), lower(varlist[k]))
         THEN FilterLoop(LbInsert(lb, LbSize(lb), varlist[k]), varlist, k + 1, string)
         ELSE FilterLoop(lb, varlist, k + 1, string)

RECURSIVE FilterLoopCase(_, _, _, _)
\* the loop of filter comparing without lower()
FilterLoopCase(lb, varlist, k, string) ==
    IF k > Len(varlist) THEN lb
    ELSE IF Contains(string, varlist[k])
         THEN FilterLoopCase(LbInsert(lb, LbSize(lb), varlist[k]), varlist, k + 1, string)
         ELSE FilterLoopCase(lb, varlist, k + 1, string)

\* filter with that loop
filter_case_sensitive(lb, condition, string) ==
    FilterLoopCase(LbDeleteAll(lb), condition.array, 1, string)

\* VarWindow.filter(string): the listbox after the call
filter(lb, condition, string) ==
    FilterLoop(LbDeleteAll(lb), condition.array, 1, string)

\* VarWindow.get_selected(): the highlighted rows, in index order
get_selected(lb) ==
    LET index == LbCurselection(lb)
    IN  [k \in 1..Len(index) |-> LbGet(lb, index[k])]

(***************************************************************************)
(* SelectedWindow                                                          *)
(***************************************************************************)
\* var not in allvars
NotIn(var, allvars) == \A k \in 1..Len(allvars) : allvars[k] # var

RECURSIVE AddLoop(_, _, _, _)
\* for var in varlist: if var not in allvars: insert(size, var)
AddLoop(lb, allvars, varlist, k) ==
    IF k > Len(varlist) THEN lb
    ELSE IF NotIn(varlist[k], allvars)
         THEN AddLoop(LbInsert(lb, LbSize(lb), varlist[k]), allvars, varlist, k + 1)
         ELSE AddLoop(lb, allvars, varlist, k + 1)

RECURSIVE AddLoopFront(_, _, _, _)
\* the loop of add inserting at index 0 instead of at the end
AddLoopFront(lb, allvars, varlist, k) ==
    IF k > Len(varlist) THEN lb
    ELSE IF NotIn(varlist[k], allvars)
         THEN AddLoopFront(LbInsert(lb, 0, varlist[k]), allvars, varlist, k + 1)
         ELSE AddLoopFront(lb, allvars, varlist, k + 1)

\* add with that loop
SelectedWindowAddFront(lb, varlist) ==
    AddLoopFront(lb, LbGetAll(lb), varlist, 1)

\* SelectedWindow.add(varlist): allvars is read once, before the loop
SelectedWindowAdd(lb, varlist) ==
    AddLoop(lb, LbGetAll(lb), varlist, 1)

RECURSIVE Descending(_)
\* index = list(curselection()); index.sort(reverse=True)
Descending(S) ==
    IF S = {} THEN <<>>
    ELSE LET m == CHOOSE x \in S : \A y \in S : x >= y
         IN  <<m>> \o Descending(S \ {m})

RECURSIVE RemoveLoop(_, _, _)
\* for i in index: self.listbox.delete(i)
RemoveLoop(lb, index, k) ==
    IF k > Len(index) THEN lb
    ELSE RemoveLoop(LbDelete(lb, index[k]), index, k + 1)

\* remove without its  index.sort(reverse=True)
RemoveOrderUnsorted(lb) == Ascending(lb.sel)

\* the order in which SelectedWindow.remove deletes the highlighted rows
RemoveOrder(lb) == Descending(lb.sel)

\* SelectedWindow.remove(): the listbox after the call
SelectedWindowRemove(lb) ==
    RemoveLoop(lb, RemoveOrder(lb), 1)

\* SelectedWindow.get_displayed()
get_displayed(lb) == LbGetAll(lb)

(***************************************************************************)
(* ConditionSelect and VarSelector: the wiring                             *)
(***************************************************************************)
\* addlist of VarSelector.add: each highlighted row tagged with the
\* picker's displayed name
AddList(name, selected) ==
    [k \in 1..Len(selected) |-> <<name, selected[k]>>]

\* ConditionSelect.get_condition(): the dictionary's condition for the
\* displayed name
get_condition(name) == condition_dict[name]

\* _condition_trace re-applying the filter text after the rebuild
ConditionTraceRefilter(name) ==
    /\ name \in DOMAIN condition_dict
    /\ vwCondition' = condition_dict[name].name
    /\ varBox' = filter(varBox, condition_dict[name], filterVar)

\* VarSelector._condition_trace, the callback registered on the picker:
\* it reads the picker's name back with get()
ConditionTrace(name) ==
    /\ name \in DOMAIN condition_dict
    /\ vwCondition' = condition_dict[name].name
    /\ varBox' = build_box(varBox, condition_dict[name])

\* whether update_display runs the callback
CallsTracefunc(f) == f # "None"

\* update_display emptying the accumulated selection list on a pick
UpdateDisplayClearing(name) ==
    /\ stringvar' = name
    /\ IF CallsTracefunc(tracefunc)
       THEN ConditionTrace(stringvar')
       ELSE UNCHANGED <<vwCondition, varBox>>
    /\ selBox' = EmptyListbox
    /\ lastEvent' = Event("", <<>>, <<>>)
    /\ UNCHANGED <<tracefunc, filterVar>>

\* ConditionSelect.update_display(name): a menu command
UpdateDisplay(name) ==
    /\ stringvar' = name
    /\ IF CallsTracefunc(tracefunc)
       THEN ConditionTrace(stringvar')
       ELSE UNCHANGED <<vwCondition, varBox>>
    /\ lastEvent' = Event("", <<>>, <<>>)
    /\ UNCHANGED <<tracefunc, selBox, filterVar>>

\* ConditionSelect.set(name): the StringVar's own set
SetName(name) ==
    /\ stringvar' = name
    /\ lastEvent' = Event("", <<>>, <<>>)
    /\ UNCHANGED <<tracefunc, vwCondition, varBox, selBox, filterVar>>

\* a write to the filter StringVar, then VarSelector._filter_trace
FilterWrite(string) ==
    /\ filterVar' = string
    /\ varBox' = filter(varBox, condition_dict[vwCondition], filterVar')
    /\ lastEvent' = Event("", <<>>, <<>>)
    /\ UNCHANGED <<stringvar, tracefunc, vwCondition, selBox>>

\* the user highlights the rows S of the item list; both listboxes export
\* their selection (Tk's default), so a non-empty highlight takes the
\* selection away from the other listbox
HighlightVar(S) ==
    /\ varBox' = [varBox EXCEPT !.sel = S]
    /\ selBox' = IF S # {} THEN [selBox EXCEPT !.sel = {}] ELSE selBox
    /\ lastEvent' = Event("", <<>>, <<>>)
    /\ UNCHANGED <<stringvar, tracefunc, vwCondition, filterVar>>

\* the user highlights the rows S of the accumulated selection list
HighlightSel(S) ==
    /\ selBox' = [selBox EXCEPT !.sel = S]
    /\ varBox' = IF S # {} THEN [varBox EXCEPT !.sel = {}] ELSE varBox
    /\ lastEvent' = Event("", <<>>, <<>>)
    /\ UNCHANGED <<stringvar, tracefunc, vwCondition, filterVar>>

\* VarSelector.add: the "Add Variable" button or <Return>; max caps the
\* list's length in the model
Add(max) ==
    /\ selBox' = SelectedWindowAdd(selBox, AddList(stringvar, get_selected(varBox)))
    /\ LbSize(selBox') <= max
    /\ lastEvent' = Event("", <<>>, <<>>)
    /\ UNCHANGED <<stringvar, tracefunc, vwCondition, varBox, filterVar>>

\* SelectedWindow.remove: the "Remove Variable" button or <BackSpace>
Remove ==
    /\ selBox' = SelectedWindowRemove(selBox)
    /\ lastEvent' = Event("", RemoveOrder(selBox), <<>>)
    /\ UNCHANGED <<stringvar, tracefunc, vwCondition, varBox, filterVar>>

(***************************************************************************)
(* DateEntry                                                               *)
(***************************************************************************)
NaT == "NaT"

\* pd.to_datetime(text, errors="coerce")
to_datetime(text) ==
    CASE text = "2021-01-01" -> "2021-01-01 00:00:00"
      [] text = "2021-12-31" -> "2021-12-31 00:00:00"
      [] OTHER -> NaT

\* get_daterange giving up on both bounds when either text fails to parse
get_daterange_joint(from, to) ==
    IF to_datetime(from) = NaT \/ to_datetime(to) = NaT
    THEN <<NaT, NaT>>
    ELSE <<to_datetime(from), to_datetime(to)>>

\* DateEntry.get_daterange()
get_daterange(from, to) == <<to_datetime(from), to_datetime(to)>>

\* the user edits one of the two date entries
DateWrite(text, side) ==
    /\ IF side = "from"
       THEN fromVar' = text /\ UNCHANGED toVar
       ELSE toVar' = text /\ UNCHANGED fromVar
    /\ lastEvent' = Event("", <<>>, <<>>)

(***************************************************************************)
(* NumOfCases                                                              *)
(***************************************************************************)
None == [type |-> "NoneType"]
NaN == [type |-> "nan"]
Absent == [type |-> "absent"]
Raised == [type |-> "raised"]

\* a table returned by filter_cases, with shape[0] = rows
DataFrame(rows) == [type |-> "DataFrame", shape0 |-> rows]

IntValue(n) == [type |-> "int", value |-> n]

\* the call filter_cases(filters, daterange=daterange) and what came back
QueryCall(filters, daterange, returned) ==
    [fn |-> "filter_cases", filters |-> filters, daterange |-> daterange,
     returned |-> returned]

\* _compile forwarding only the highlighted rows of the accumulated list
CompileFiltersHighlighted == get_selected(selBox)

\* the arguments NumOfCases._compile reads from the selector
CompileFilters == get_displayed(selBox)
CompileDaterange == get_daterange(fromVar, toVar)

\* self._compiled_cases = filter_cases(...): what is stored
StoredCases(returned) == returned

\* count = self._compiled_cases.shape[0]
CountOf(cases) == IntValue(cases.shape0)

\* NumOfCases._compile, the query returning the table  returned
Compile(returned) ==
    /\ compiledCases' = StoredCases(returned)
    /\ numVariable' = CountOf(compiledCases')
    /\ lastEvent' = Event("_compile", <<>>,
                          <<QueryCall(CompileFilters, CompileDaterange, returned)>>)
    /\ UNCHANGED files

\* _compile resetting the panel before it lets the query's error through
CompileRaiseResets ==
    /\ compiledCases' = None
    /\ numVariable' = NaN
    /\ lastEvent' = Event("_compile", <<>>,
                          <<QueryCall(CompileFilters, CompileDaterange, Raised)>>)
    /\ UNCHANGED files

\* NumOfCases._compile, the query raising: the assignment never happens
CompileRaise ==
    /\ lastEvent' = Event("_compile", <<>>,
                          <<QueryCall(CompileFilters, CompileDaterange, Raised)>>)
    /\ UNCHANGED <<compiledCases, numVariable, files>>

\* _open without its test for None
HasCompiledUnchecked(cases) == TRUE

\* if self._compiled_cases is not None
HasCompiled(cases) == cases # None

\* the two calls of NumOfCases._open
OpenCalls(cases) ==
    << [fn |-> "to_csv", frame |-> cases, path |-> CsvName],
       [fn |-> "wb.open", path |-> CsvName] >>

\* _open dropping the stored table once it is exported
OpenAndForget ==
    /\ IF HasCompiled(compiledCases)
       THEN /\ files' = [files EXCEPT ![CsvName] = compiledCases]
            /\ lastEvent' = Event("_open", <<>>, OpenCalls(compiledCases))
            /\ compiledCases' = None
       ELSE /\ UNCHANGED <<files, compiledCases>>
            /\ lastEvent' = Event("_open", <<>>, <<>>)
    /\ UNCHANGED numVariable

\* _open blanking the row count once the table is exported
OpenResetsCount ==
    /\ IF HasCompiled(compiledCases)
       THEN /\ files' = [files EXCEPT ![CsvName] = compiledCases]
            /\ lastEvent' = Event("_open", <<>>, OpenCalls(compiledCases))
            /\ numVariable' = NaN
       ELSE /\ UNCHANGED <<files, numVariable>>
            /\ lastEvent' = Event("_open", <<>>, <<>>)
    /\ UNCHANGED compiledCases

\* NumOfCases._open
Open ==
    /\ IF HasCompiled(compiledCases)
       THEN /\ files' = [files EXCEPT ![OpenCalls(compiledCases)[1].path] =
                                        OpenCalls(compiledCases)[1].frame]
            /\ lastEvent' = Event("_open", <<>>, OpenCalls(compiledCases))
       ELSE /\ UNCHANGED files
            /\ lastEvent' = Event("_open", <<>>, <<>>)
    /\ UNCHANGED <<compiledCases, numVariable>>

Init ==
    /\ stringvar = defaultCondition.name
    /\ tracefunc = "_condition_trace"
    /\ vwCondition = defaultCondition.name
    /\ varBox = build_box(EmptyListbox, defaultCondition)
    /\ selBox = EmptyListbox
    /\ filterVar = <<>>
    /\ fromVar = "" /\ toVar = ""
    /\ compiledCases = None
    /\ numVariable = NaN
    /\ files = [f \in {CsvName} |-> Absent]
    /\ lastEvent = Event("", <<>>, <<>>)

(***************************************************************************)
(* The VarSelector run on its own (toolbox.py's main): the user's events.  *)
(***************************************************************************)
MenuPick ==
    \E name \in MenuNames : UpdateDisplay(name) /\ UNCHANGED <<dateVars, panelVars>>
FilterEdit ==
    \E s \in FilterTexts : FilterWrite(s) /\ UNCHANGED <<dateVars, panelVars>>
SelectItems ==
    \E S \in SUBSET (0..(LbSize(varBox) - 1)) :
        HighlightVar(S) /\ UNCHANGED <<dateVars, panelVars>>
SelectEntries ==
    \E S \in SUBSET (0..(LbSize(selBox) - 1)) :
        HighlightSel(S) /\ UNCHANGED <<dateVars, panelVars>>
AddVariable == Add(MaxSelected) /\ UNCHANGED <<dateVars, panelVars>>
RemoveVariable == Remove /\ UNCHANGED <<dateVars, panelVars>>

NextSelector ==
    \/ MenuPick
    \/ FilterEdit
    \/ SelectItems
    \/ SelectEntries
    \/ AddVariable
    \/ RemoveVariable

SpecSelector == Init /\ [][NextSelector]_vars

(***************************************************************************)
(* The same with the picker's public set(name) called from outside.        *)
(***************************************************************************)
AddEntry == Add(MaxEntries) /\ UNCHANGED <<dateVars, panelVars>>
PickerSet ==
    \E name \in MenuNames : SetName(name) /\ UNCHANGED <<dateVars, panelVars>>

NextPicker ==
    \/ MenuPick
    \/ FilterEdit
    \/ SelectItems
    \/ SelectEntries
    \/ AddEntry
    \/ RemoveVariable
    \/ PickerSet

SpecPicker == Init /\ [][NextPicker]_vars

(***************************************************************************)
(* The whole applet (numcases.py's main): VarSelector inside NumOfCases.   *)
(***************************************************************************)
FilterKey ==
    \E s \in PanelFilterTexts : FilterWrite(s) /\ UNCHANGED <<dateVars, panelVars>>
DateEdit ==
    \E text \in PanelDateTexts, side \in {"from", "to"} :
        DateWrite(text, side) /\ UNCHANGED <<selectorVars, panelVars>>
CompileData ==
    \E rows \in RowCounts :
        Compile(DataFrame(rows)) /\ UNCHANGED <<selectorVars, dateVars>>
CompileFails == CompileRaise /\ UNCHANGED <<selectorVars, dateVars>>
OpenData == Open /\ UNCHANGED <<selectorVars, dateVars>>

Next ==
    \/ MenuPick
    \/ FilterKey
    \/ SelectItems
    \/ SelectEntries
    \/ AddEntry
    \/ RemoveVariable
    \/ DateEdit
    \/ CompileData
    \/ CompileFails
    \/ OpenData

Spec == Init /\ [][Next]_vars

(***************************************************************************)
(* The NumOfCases panel driven by its date entries alone, with every date  *)
(* text: the selector is left as it is built.                              *)
(***************************************************************************)
DateEditAll ==
    \E text \in DateTexts, side \in {"from", "to"} :
        DateWrite(text, side) /\ UNCHANGED <<selectorVars, panelVars>>

NextDates ==
    \/ DateEditAll
    \/ CompileData
    \/ CompileFails
    \/ OpenData

SpecDates == Init /\ [][NextDates]_vars

(***************************************************************************)
(* Properties                                                              *)
(***************************************************************************)
\* the elements of items whose lowercase form contains the lowercase of s,
\* in the order of items
FilteredItems(items, s) ==
    SelectSeq(items, LAMBDA v : Contains(lower(s), lower(v)))

\* the rows of lb that are not highlighted, in their order
Unhighlighted(lb) ==
    LET keep == Ascending((0..(LbSize(lb) - 1)) \ lb.sel)
    IN  [k \in 1..Len(keep) |-> lb.rows[keep[k] + 1]]

\* the highlighted rows of the item list in display order, each tagged
\* with the picker's displayed name
TaggedHighlights ==
    LET at == Ascending(varBox.sel)
    IN  [k \in 1..Len(at) |-> <<stringvar, varBox.rows[at[k] + 1]>>]

\* C1: the accumulated selection list never holds two rows with the same
\* (conditionName, itemName) pair.
NoDuplicateEntries ==
    \A i, j \in 1..LbSize(selBox) :
        selBox.rows[i] = selBox.rows[j] => i = j

\* C2 (as claimed): the item list always shows the items of the picked
\* condition that match the current filter text.
ItemListShowsFiltered ==
    varBox.rows = FilteredItems(condition_dict[stringvar].array, filterVar)

\* C2 (amended): the item list always shows either the full item array of
\* the picked condition or the items of it that match the current filter
\* text.
ItemListShowsFullOrFiltered ==
    \/ varBox.rows = condition_dict[stringvar].array
    \/ varBox.rows = FilteredItems(condition_dict[stringvar].array, filterVar)

\* C2 witness: a filter is in effect: the rows are the matching items and
\* not the full array.
FilterInEffect ==
    /\ filterVar = <<"C", "O">>
    /\ stringvar = "Diagnosis"
    /\ varBox.rows = <<cold, covid>>

\* C3: a menu pick makes the item list show the picked condition's full
\* array, whatever the filter text, and only a menu pick or a filter-text
\* change alters the rows shown.
PickShowsFullArrayUntilFilter ==
    [][/\ varBox'.rows = condition_dict[stringvar'].array \/ ~MenuPick
       /\ varBox'.rows = varBox.rows \/ MenuPick \/ FilterEdit]_vars

\* C3 witness: the filter text matches no item of "Symptom", yet all of its
\* items are shown.
FullArrayDespiteFilter ==
    /\ filterVar = <<"x">>
    /\ vwCondition = "Symptom"
    /\ varBox.rows = <<Cold, flu, Cold>>

\* C4: remove leaves exactly the rows that were not highlighted, in their
\* order.
RemoveDeletesHighlighted ==
    [][RemoveVariable => selBox'.rows = Unhighlighted(selBox)]_vars

\* C4 witness: rows 0 and 2 of three were removed and one row is left.
RemovedFirstAndThird ==
    /\ lastEvent.index = <<2, 0>>
    /\ LbSize(selBox) = 1

\* C5: add keeps the rows of the list where they are and appends the
\* highlighted item rows, tagged with the picker's name, that were not in
\* the list, in display order.
AddAppendsNewEntries ==
    [][AddVariable =>
        selBox'.rows = selBox.rows \o
            SelectSeq(TaggedHighlights, LAMBDA e : NotIn(e, selBox.rows))]_vars

\* C5 witness: "Diagnosis" filtered by "CO", both rows highlighted and added
\* after an entry that was already there.
AddedColdAndCovid ==
    /\ filterVar = <<"C", "O">>
    /\ varBox.sel = {0, 1}
    /\ selBox.rows = << <<"Diagnosis", flu>>, <<"Diagnosis", cold>>,
                        <<"Diagnosis", covid>> >>

\* C6: whenever the picker's displayed name changes, the callback runs in
\* the same step and reads the new name: the item list is rebuilt from the
\* condition of that name.
EveryNameChangeNotifies ==
    [][stringvar' # stringvar =>
        /\ vwCondition' = stringvar'
        /\ varBox'.rows = condition_dict[stringvar'].array]_vars

\* C7: a filter-text change makes the item list show exactly the items of
\* its condition whose lowercase form contains the lowercase of the text,
\* in the condition's order and once per occurrence.
FilterShowsMatchingItems ==
    [][\/ varBox'.rows = FilteredItems(condition_dict[vwCondition].array, filterVar')
       \/ ~FilterEdit]_vars

\* C7 witness: "CO" keeps both occurrences of "Cold" of "Symptom" and drops
\* "flu".
FilteredRepeatedItem ==
    /\ filterVar = <<"C", "O">>
    /\ vwCondition = "Symptom"
    /\ varBox.rows = <<Cold, Cold>>

\* the last event was a _compile whose query returned a table
CompileReturned ==
    /\ lastEvent.handler = "_compile"
    /\ lastEvent.calls[1].returned # Raised

\* C8: the panel starts with no result; once a result is stored no step
\* takes it away; a compile whose query returned stores what was returned.
ResultNeverDiscarded ==
    /\ compiledCases = None
    /\ [][compiledCases # None => compiledCases' # None]_vars
    /\ [](CompileReturned => compiledCases = lastEvent.calls[1].returned)

\* C8 witness: a table of 0 rows was compiled and exported, and a second
\* compile has replaced it by one of 2 rows.
ResultReplaced ==
    /\ files[CsvName] = DataFrame(0)
    /\ CompileReturned
    /\ compiledCases = DataFrame(2)

\* C9: open with no stored result writes no file and calls nothing; with a
\* stored result it writes that result to the fixed name and then opens
\* that path; it changes neither the stored result nor the row count.
OpenExportsOrDoesNothing ==
    [][OpenData =>
        /\ compiledCases' = compiledCases
        /\ numVariable' = numVariable
        /\ IF compiledCases = None
           THEN files' = files /\ lastEvent'.calls = <<>>
           ELSE /\ files' = [files EXCEPT ![CsvName] = compiledCases]
                /\ Len(lastEvent'.calls) = 2
                /\ lastEvent'.calls[1] =
                       [fn |-> "to_csv", frame |-> compiledCases, path |-> CsvName]
                /\ lastEvent'.calls[2] = [fn |-> "wb.open", path |-> CsvName]]_vars

\* C9 witness: open has just run with nothing stored: no file, no call.
OpenedWithoutResult ==
    /\ lastEvent.handler = "_open"
    /\ compiledCases = None
    /\ lastEvent.calls = <<>>
    /\ \A f \in DOMAIN files : files[f] = Absent

\* C10: a compile calls the query once, with the rows of the accumulated
\* list and the parsed date range as they are, stores the table returned
\* and shows its row count; whenever a result is stored the row count
\* shown is its row count.
CompileForwardsAndCounts ==
    /\ lastEvent.handler = "_compile" =>
        /\ Len(lastEvent.calls) = 1
        /\ lastEvent.calls[1].fn = "filter_cases"
        /\ lastEvent.calls[1].filters = selBox.rows
        /\ lastEvent.calls[1].daterange = <<to_datetime(fromVar), to_datetime(toVar)>>
        /\ lastEvent.calls[1].returned # Raised =>
               compiledCases = lastEvent.calls[1].returned
    /\ compiledCases # None => numVariable = IntValue(compiledCases.shape0)

\* C10 witness: a compile with an empty list and both dates absent got a
\* table of 2 rows.
CompiledEmptySelection ==
    /\ lastEvent.handler = "_compile"
    /\ lastEvent.calls[1].filters = <<>>
    /\ lastEvent.calls[1].daterange = <<NaT, NaT>>
    /\ compiledCases = DataFrame(2)
    /\ numVariable = IntValue(2)

\* the date texts that are dates, and the bound each one stands for
ValidDates ==
    [t \in {"2021-01-01", "2021-12-31"} |->
        IF t = "2021-01-01" THEN "2021-01-01 00:00:00" ELSE "2021-12-31 00:00:00"]

\* the bound one entry's text stands for, whatever the other entry holds
BoundOf(text) == IF text \in DOMAIN ValidDates THEN ValidDates[text] ELSE NaT

\* C11: get_daterange never raises and parses its two bounds independently:
\* whatever the two entries hold, "Compile Data" can be pressed, and the
\* date pair a _compile has just handed to the query is, side by side, the
\* date the entry's text names or NaT when the text is empty or not a date;
\* the two bounds are never compared, whichever is the later one
DatesParsedIndependently ==
    /\ ENABLED CompileData
    /\ lastEvent.handler = "_compile" =>
           /\ Len(lastEvent.calls) = 1
           /\ lastEvent.calls[1].daterange = <<BoundOf(fromVar), BoundOf(toVar)>>

\* a compile went through with an unparsable "from" text and a valid "to"
\* text: the query got (NaT, 2021-01-01) and its table was stored
CompiledWithHalfRange ==
    /\ lastEvent.handler = "_compile"
    /\ fromVar = "abc" /\ toVar = "2021-01-01"
    /\ lastEvent.calls[1].daterange = <<NaT, "2021-01-01 00:00:00">>
    /\ lastEvent.calls[1].returned = DataFrame(2)
    /\ compiledCases = DataFrame(2)

\* C12: filter("") is build_box of the current condition: applied to any
\* display the item list gets into, with any condition, both leave the same
\* listbox, the condition's whole array in order with no row highlighted;
\* and a filter-text change to the empty text leaves what build_box of the
\* item list's condition would.
EmptyFilterIsBuildBox ==
    /\ [](\A name \in DOMAIN condition_dict :
            /\ filter(varBox, condition_dict[name], <<>>) =
                   build_box(varBox, condition_dict[name])
            /\ filter(varBox, condition_dict[name], <<>>).rows =
                   condition_dict[name].array)
    /\ [][\/ filterVar' # <<>>
          \/ ~FilterEdit
          \/ varBox' = build_box(varBox, condition_dict[vwCondition])]_vars

\* C12 witness: the list shows the one item of "Diagnosis" that matches "u",
\* highlighted; filter("") applied to it shows all three items, as build_box
\* does.
EmptyFilterOnFilteredList ==
    /\ filterVar = <<"u">>
    /\ vwCondition = "Diagnosis"
    /\ varBox = [rows |-> <<flu>>, sel |-> {0}]
    /\ filter(varBox, condition_dict[vwCondition], <<>>) =
           [rows |-> <<flu, cold, covid>>, sel |-> {}]
    /\ build_box(varBox, condition_dict[vwCondition]) =
           [rows |-> <<flu, cold, covid>>, sel |-> {}]

\* C13: get_condition never fails to look the displayed name up: in every
\* state the picker gets into from its initial one the displayed name is a
\* key of condition_dict, and the condition found bears that name.
DisplayedNameInCatalog ==
    /\ stringvar \in DOMAIN condition_dict
    /\ get_condition(stringvar).name = stringvar

\* C13 witness: the picker has left its default and displays "Symptom";
\* get_condition finds the condition of that name.
DisplaysSymptom ==
    /\ stringvar = "Symptom"
    /\ stringvar # defaultCondition.name
    /\ get_condition(stringvar) = [name |-> "Symptom", array |-> <<Cold, flu, Cold>>]

\* C14: every entry of the accumulated selection list agrees with the
\* catalog: its item is an element of the array of the condition its tag
\* names.
EntriesMatchCatalog ==
    \A i \in 1..LbSize(selBox) :
        /\ selBox.rows[i][1] \in DOMAIN condition_dict
        /\ \E k \in 1..Len(condition_dict[selBox.rows[i][1]].array) :
               condition_dict[selBox.rows[i][1]].array[k] = selBox.rows[i][2]

\* the last event was a _compile whose query raised
CompileFailed ==
    /\ lastEvent.handler = "_compile"
    /\ lastEvent.calls[1].returned = Raised

\* C15: a compile whose query fails lets the failure through and leaves the
\* panel as it was: the stored result, or its absence, the row count shown
\* and the files are those of before the call; an open coming right after
\* it exports that same stored result, or does nothing when there is none.
FailedCompileChangesNothing ==
    [][/\ \/ ~CompileFailed'
          \/ /\ compiledCases' = compiledCases
             /\ numVariable' = numVariable
             /\ files' = files
       /\ \/ ~CompileFailed
          \/ lastEvent'.handler # "_open"
          \/ /\ compiledCases' = compiledCases
             /\ files' = IF compiledCases = None THEN files
                         ELSE [files EXCEPT ![CsvName] = compiledCases]]_vars

\* C15 witness: a compile has just failed while a table of 2 rows was
\* stored and counted: the table and the count are still there.
CompileFailedResultKept ==
    /\ CompileFailed
    /\ compiledCases = DataFrame(2)
    /\ numVariable = IntValue(2)

\* C16: the stored result is a snapshot of the last compile: only a compile
\* whose query returned changes the stored result or the row count shown,
\* and it stores what the query returned; no add, remove, menu pick, filter
\* or date edit, failed compile or open does.  An open with a result stored
\* writes that result to the csv file, whatever the accumulated list holds
\* by then.
StoredResultIsSnapshot ==
    [][/\ \/ /\ compiledCases' = compiledCases
             /\ numVariable' = numVariable
          \/ /\ CompileReturned'
             /\ compiledCases' = lastEvent'.calls[1].returned
             /\ numVariable' = IntValue(lastEvent'.calls[1].returned.shape0)
       /\ \/ lastEvent'.handler # "_open"
          \/ compiledCases = None
          \/ files'[CsvName] = compiledCases]_vars

\* C16 witness: the last event was a remove that emptied the accumulated
\* list, after the compile that stored a table of 2 rows: the table and the
\* count are as the compile left them.
RemovedAfterCompile ==
    /\ lastEvent.handler = ""
    /\ lastEvent.index = <<0>>
    /\ selBox.rows = <<>>
    /\ compiledCases = DataFrame(2)
    /\ numVariable = IntValue(2)

\* C17: a menu pick or a filter-text change leaves the accumulated
\* selection list as it is; add and remove leave the item list (its rows
\* and highlights), its condition, the picker's displayed name and the
\* filter text as they are.
WidgetsKeepToThemselves ==
    [][/\ \/ selBox' = selBox
          \/ ~(MenuPick \/ FilterEdit)
       /\ \/ /\ varBox' = varBox
             /\ vwCondition' = vwCondition
             /\ stringvar' = stringvar
             /\ filterVar' = filterVar
          \/ ~(AddVariable \/ RemoveVariable)]_vars

\* C17 witness: the list holds an entry of "Diagnosis" and, after it, one
\* of "Symptom"; since the second was added "Diagnosis" was picked again
\* and the filter text changed to one that matches nothing.
EntriesOfTwoConditions ==
    /\ selBox.rows = << <<"Diagnosis", flu>>, <<"Symptom", flu>> >>
    /\ stringvar = "Diagnosis"
    /\ vwCondition = "Diagnosis"
    /\ filterVar = <<"x">>
    /\ varBox.rows = <<>>

\* C18: every rebuild (menu pick) and every refilter (filter-text change)
\* of the item list leaves no row highlighted, and an add that finds no row
\* highlighted, as the one pressed right after a pick or a filter change
\* does, reads an empty selection and leaves the accumulated list as it is.
RebuildClearsHighlights ==
    [][/\ \/ varBox'.sel = {}
          \/ ~(MenuPick \/ FilterEdit)
       /\ \/ varBox.sel # {}
          \/ ~AddVariable
          \/ /\ get_selected(varBox) = <<>>
             /\ selBox' = selBox]_vars

\* C18 witness: an entry of "Diagnosis" was added from a highlighted row;
\* "Symptom" was picked since and its three rows are shown with none
\* highlighted: add would read nothing and leave the list with its one
\* entry.
NothingToAddAfterPick ==
    /\ selBox = [rows |-> << <<"Diagnosis", cold>> >>, sel |-> {}]
    /\ vwCondition = "Symptom"
    /\ varBox = [rows |-> <<Cold, flu, Cold>>, sel |-> {}]
    /\ get_selected(varBox) = <<>>
    /\ SelectedWindowAdd(selBox, AddList(stringvar, get_selected(varBox))) = selBox

====
